---- MODULE Spec2Model ----
(***************************************************************************)
(* recovercheck: a go/analysis pass that reports goroutines started        *)
(* without panic recovery.  The model follows src/recovercheck.go: one     *)
(* run of the pass over one package (the unit), its table                  *)
(* RecoverFunctions, and the diagnostics it reports.                       *)
(*                                                                         *)
(* Syntax trees are records [kind, name, obj, kids]:                       *)
(*   kind  the go/ast node type,                                           *)
(*   name  the identifier text (Ident, FuncDecl, the Sel of a selector,    *)
(*         the file name of a File),                                       *)
(*   obj   for an Ident: what the identifier denotes in its own file       *)
(*         ("" nothing known, "var", "func", or a package id);             *)
(*         Pass.TypesInfo.Uses holds it for the nodes of the unit only;    *)
(*         for a FuncDecl: "func" or "method" (a receiver is present),     *)
(*   kids  the children in the order ast.Inspect walks them.               *)
(* A position is the path of child indexes from the root of the unit.      *)
(***************************************************************************)
EXTENDS Naturals, Sequences, FiniteSets, TLC

VARIABLES
    unit,              \* the package under analysis (Pass.Files), fixed during a run
    env,               \* type information and the imported packages' sources
    pc,                \* which loop of run() is executing
    idx,               \* index of the next element of that loop
    RecoverFunctions,  \* Analyzer.RecoverFunctions: key -> hasRecover
    diags,             \* what Pass.Reportf received, in order
    writes,            \* history: every assignment to RecoverFunctions, in order
    loads,             \* history: every call of analyzeCrossPackageFunction, with the key it was for
    lookups,           \* history: every keyed call of isCrossPackageRecoveryFunction
    verdicts,          \* history: what hasRecoveryLogic returned for each go statement
    nodes,             \* the NodeCollector that CollectNodes returned
    settings,          \* the RecovercheckSettings the analyzer was made with
    runs               \* history: the unit and the diagnostics of every finished run

vars == <<unit, env, pc, idx, RecoverFunctions, diags, writes, loads, lookups, verdicts, nodes,
          settings, runs>>

----------------------------------------------------------------------------
(* Bounds *)

MaxDecls == 2      \* function declarations of the unit besides the launching one
MaxLaunch == 2     \* statements in the body of the launching function
MaxRuns == 2       \* runs after the first

----------------------------------------------------------------------------
(* go/ast nodes *)

Node(kind, name, obj, kids) == [kind |-> kind, name |-> name, obj |-> obj, kids |-> kids]

Ident(name, obj) == Node("Ident", name, obj, <<>>)
SelectorExpr(x, sel) == Node("SelectorExpr", sel, "", <<x>>)
IndexExpr(x, i) == Node("IndexExpr", "", "", <<x, i>>)
BlockStmt(list) == Node("BlockStmt", "", "", list)
FuncLit(list) == Node("FuncLit", "", "", <<BlockStmt(list)>>)
CallExpr(fun, args) == Node("CallExpr", "", "", <<fun>> \o args)
ExprStmt(x) == Node("ExprStmt", "", "", <<x>>)
AssignStmt(lhs, rhs) == Node("AssignStmt", "", "", <<lhs, rhs>>)
IfStmt(init, cond, list) == Node("IfStmt", "", "", <<init, cond, BlockStmt(list)>>)
DeferStmt(call) == Node("DeferStmt", "", "", <<call>>)
GoStmt(call) == Node("GoStmt", "", "", <<call>>)
GoStmtNoCall == Node("GoStmt", "", "", <<>>)
FuncDecl(name, recv, list) == Node("FuncDecl", name, recv, <<BlockStmt(list)>>)
FuncDeclNoBody(name, recv) == Node("FuncDecl", name, recv, <<>>)
File(name, decls) == Node("File", name, "", decls)
Package(files) == Node("Package", "", "", files)

HasBody(funcDecl) == Len(funcDecl.kids) > 0
Body(funcDecl) == funcDecl.kids[1]
Fun(call) == call.kids[1]
Args(call) == SubSeq(call.kids, 2, Len(call.kids))

----------------------------------------------------------------------------
(* The table and the analysis state threaded through the recursive walk.   *)
(* st = [tbl, writes, loads, lookups, ret]; ret is the value returned.     *)

Put(tbl, key, val) == [k \in DOMAIN tbl \cup {key} |-> IF k = key THEN val ELSE tbl[k]]

Ret(st, b) == [st EXCEPT !.ret = b]

\* isRecoverCall
IsRecoverCallWrongName(call) ==
    IF Fun(call).kind = "Ident" THEN Fun(call).name = "Recover" ELSE FALSE
IsRecoverCall(call) ==
    IF Fun(call).kind = "Ident" THEN Fun(call).name = "recover" ELSE FALSE

\* isRecoveryFunction taking an unknown name for safe
IsRecoveryFunctionAssumeSafe(funcName, st) ==
    IF funcName \in DOMAIN st.tbl THEN Ret(st, st.tbl[funcName]) ELSE Ret(st, TRUE)

\* isRecoveryFunction
IsRecoveryFunction(funcName, st) ==
    IF funcName \in DOMAIN st.tbl THEN Ret(st, st.tbl[funcName]) ELSE Ret(st, FALSE)

RECURSIVE FindRecoverCall(_, _, _)
RECURSIVE Inspect(_, _, _)
RECURSIVE InspectChildren(_, _, _, _)
RECURSIVE BlockList(_, _, _, _)
RECURSIVE Callback(_, _, _)
RECURSIVE IsDeferredRecovery(_, _, _)
RECURSIVE IsCrossPackageRecoveryFunction(_, _, _)
RECURSIVE AnalyzeCrossPackageFunction(_, _, _)
RECURSIVE AnalyzeFunctionFromPosition(_, _, _)

\* containsRecover
ContainsRecover(node, inUnit, st) == FindRecoverCall(node, inUnit, st)

\* the ast.Inspect of analyzeFunctionFromPosition: every FuncDecl of the file
\* is visited in source order; "return false" only prunes the subtree of the
\* match, so a later declaration of the same name replaces an earlier one.
RECURSIVE FindDecl(_, _, _, _)
FindDecl(decls, i, funcName, found) ==
    IF i > Len(decls) THEN found
    ELSE FindDecl(decls, i + 1, funcName,
                  IF decls[i].kind = "FuncDecl" /\ decls[i].name = funcName
                  THEN <<decls[i]>> ELSE found)

\* analyzeFunctionFromPosition; pkg stands for the position: it selects the file
AnalyzeFunctionFromPosition(funcName, pkg, st) ==
    LET src == env.pkgs[pkg] IN
    IF ~src.positionValid THEN Ret(st, FALSE)
    ELSE IF ~src.parses THEN Ret(st, FALSE)
    ELSE LET funcDecl == FindDecl(src.decls, 1, funcName, <<>>) IN
         IF funcDecl # <<>> /\ HasBody(funcDecl[1])
         THEN ContainsRecover(Body(funcDecl[1]), FALSE, st)
         ELSE Ret(st, FALSE)

\* analyzeCrossPackageFunction
AnalyzeCrossPackageFunction(pkg, funcName, st) ==
    LET scope == env.pkgs[pkg].scope IN
    IF funcName \in DOMAIN scope
    THEN IF scope[funcName].isFunc
         THEN IF scope[funcName].posValid
              THEN AnalyzeFunctionFromPosition(funcName, pkg, st)
              ELSE Ret(st, FALSE)
         ELSE Ret(st, FALSE)
    ELSE Ret(st, FALSE)

\* isCrossPackageRecoveryFunction without the assignment to the table
IsCrossPackageRecoveryFunctionNoStore(sel, inUnit, st) ==
    LET funcName == sel.name
        pkgIdent == sel.kids[1]
    IN  IF pkgIdent.kind = "Ident"
        THEN LET key == pkgIdent.name \o "." \o funcName
                 r == IF env.typesInfo /\ inUnit /\ pkgIdent.obj \in DOMAIN env.pkgs
                      THEN AnalyzeCrossPackageFunction(pkgIdent.obj, funcName,
                               [st EXCEPT !.loads = Append(@, [key |-> key,
                                                               pkg |-> pkgIdent.obj,
                                                               fn |-> funcName])])
                      ELSE Ret(st, FALSE)
             IN  [r EXCEPT !.lookups = Append(@, [key |-> key, ret |-> r.ret,
                                                  inUnit |-> inUnit, cached |-> FALSE])]
        ELSE Ret(st, FALSE)

\* isCrossPackageRecoveryFunction taking a reference it cannot resolve for safe
IsCrossPackageRecoveryFunctionAssumeSafe(sel, inUnit, st) ==
    LET funcName == sel.name
        pkgIdent == sel.kids[1]
    IN  IF pkgIdent.kind = "Ident"
        THEN LET key == pkgIdent.name \o "." \o funcName IN
             IF key \in DOMAIN st.tbl
             THEN [st EXCEPT !.ret = st.tbl[key],
                             !.lookups = Append(@, [key |-> key, ret |-> st.tbl[key],
                                                    inUnit |-> inUnit, cached |-> TRUE])]
             ELSE LET r == IF env.typesInfo /\ inUnit /\ pkgIdent.obj \in DOMAIN env.pkgs
                           THEN AnalyzeCrossPackageFunction(pkgIdent.obj, funcName,
                                    [st EXCEPT !.loads = Append(@, [key |-> key,
                                                                    pkg |-> pkgIdent.obj,
                                                                    fn |-> funcName])])
                           ELSE Ret(st, TRUE)
                  IN  [r EXCEPT !.tbl = Put(r.tbl, key, r.ret),
                                !.writes = Append(@, [key |-> key, val |-> r.ret,
                                                      by |-> "isCrossPackageRecoveryFunction"]),
                                !.lookups = Append(@, [key |-> key, ret |-> r.ret,
                                                       inUnit |-> inUnit, cached |-> FALSE])]
        ELSE Ret(st, FALSE)

\* isCrossPackageRecoveryFunction.  inUnit tells whether sel is a node of the
\* unit's own trees: TypesInfo.Uses is keyed by node, so it has no entry for
\* the identifiers of a file parsed by analyzeFunctionFromPosition.
IsCrossPackageRecoveryFunction(sel, inUnit, st) ==
    LET funcName == sel.name
        pkgIdent == sel.kids[1]
    IN  IF pkgIdent.kind = "Ident"
        THEN LET key == pkgIdent.name \o "." \o funcName IN
             IF key \in DOMAIN st.tbl
             THEN [st EXCEPT !.ret = st.tbl[key],
                             !.lookups = Append(@, [key |-> key, ret |-> st.tbl[key],
                                                    inUnit |-> inUnit, cached |-> TRUE])]
             ELSE LET r == IF env.typesInfo /\ inUnit /\ pkgIdent.obj \in DOMAIN env.pkgs
                           THEN AnalyzeCrossPackageFunction(pkgIdent.obj, funcName,
                                    [st EXCEPT !.loads = Append(@, [key |-> key,
                                                                    pkg |-> pkgIdent.obj,
                                                                    fn |-> funcName])])
                           ELSE Ret(st, FALSE)
                  IN  [r EXCEPT !.tbl = Put(r.tbl, key, r.ret),
                                !.writes = Append(@, [key |-> key, val |-> r.ret,
                                                      by |-> "isCrossPackageRecoveryFunction"]),
                                !.lookups = Append(@, [key |-> key, ret |-> r.ret,
                                                       inUnit |-> inUnit, cached |-> FALSE])]
        ELSE Ret(st, FALSE)

\* isDeferredRecovery
IsDeferredRecovery(deferStmt, inUnit, st) ==
    IF Len(deferStmt.kids) = 0 THEN Ret(st, FALSE)
    ELSE LET call == deferStmt.kids[1] IN
         IF IsRecoverCall(call) THEN Ret(st, TRUE)
         ELSE IF Fun(call).kind = "FuncLit"
              THEN ContainsRecover(Fun(call).kids[1], inUnit, st)
         ELSE IF Fun(call).kind = "Ident"
              THEN IsRecoveryFunction(Fun(call).name, st)
         ELSE IF Fun(call).kind = "SelectorExpr"
              THEN IsCrossPackageRecoveryFunction(Fun(call), inUnit, st)
         ELSE Ret(st, FALSE)

\* the loop over node.List in the BlockStmt case of findRecoverCall
BlockList(list, i, inUnit, st) ==
    IF i > Len(list) THEN Ret(st, FALSE)
    ELSE LET r == FindRecoverCall(list[i], inUnit, st) IN
         IF r.ret THEN r ELSE BlockList(list, i + 1, inUnit, r)

\* the function literal passed to ast.Inspect in findRecoverCall, for a node
\* met while found is still false; ret is the new value of found
Callback(n, inUnit, st) ==
    CASE n.kind = "CallExpr" -> Ret(st, IsRecoverCall(n))
      [] n.kind = "DeferStmt" -> IsDeferredRecovery(n, inUnit, st)
      [] n.kind = "BlockStmt" -> BlockList(n.kids, 1, inUnit, st)
      [] OTHER -> Ret(st, FALSE)

\* ast.Inspect: depth first, the children of a node are walked only if the
\* callback returned true; the callback returns false once found is set
Inspect(n, inUnit, st) ==
    IF st.ret THEN st
    ELSE LET v == Callback(n, inUnit, st) IN
         IF v.ret THEN v ELSE InspectChildren(n.kids, 1, inUnit, v)

InspectChildren(kids, i, inUnit, st) ==
    IF i > Len(kids) THEN st
    ELSE InspectChildren(kids, i + 1, inUnit, Inspect(kids[i], inUnit, st))

\* findRecoverCall
FindRecoverCall(node, inUnit, st) == Inspect(node, inUnit, Ret(st, FALSE))

\* hasRecoveryLogic memoizing what it found for a bare name
HasRecoveryLogicStoresName(call, st) ==
    CASE Fun(call).kind = "FuncLit" -> ContainsRecover(Fun(call).kids[1], TRUE, st)
      [] Fun(call).kind = "Ident" ->
             LET r == IsRecoveryFunction(Fun(call).name, st) IN
             [r EXCEPT !.tbl = Put(r.tbl, Fun(call).name, r.ret),
                       !.writes = Append(@, [key |-> Fun(call).name, val |-> r.ret,
                                             by |-> "hasRecoveryLogic"])]
      [] Fun(call).kind = "SelectorExpr" -> IsCrossPackageRecoveryFunction(Fun(call), TRUE, st)
      [] OTHER -> Ret(st, FALSE)

\* hasRecoveryLogic
HasRecoveryLogic(call, st) ==
    CASE Fun(call).kind = "FuncLit" -> ContainsRecover(Fun(call).kids[1], TRUE, st)
      [] Fun(call).kind = "Ident" -> IsRecoveryFunction(Fun(call).name, st)
      [] Fun(call).kind = "SelectorExpr" -> IsCrossPackageRecoveryFunction(Fun(call), TRUE, st)
      [] OTHER -> Ret(st, FALSE)

----------------------------------------------------------------------------
(* CollectNodes: inspector.Nodes with a type filter; the callbacks return  *)
(* false, so the subtree of a collected node is not visited.               *)

RECURSIVE Collect(_, _, _)
RECURSIVE CollectChildren(_, _, _, _)
Collect(n, path, kind) ==
    IF n.kind = kind THEN <<[node |-> n, pos |-> path]>>
    ELSE CollectChildren(n.kids, 1, path, kind)
CollectChildren(kids, i, path, kind) ==
    IF i > Len(kids) THEN <<>>
    ELSE Collect(kids[i], Append(path, i), kind) \o CollectChildren(kids, i + 1, path, kind)

\* isErrgroupGoCall
IsErrgroupGoCall(call) ==
    IF Fun(call).kind = "SelectorExpr" THEN Fun(call).name = "Go" ELSE FALSE

FunctionDecls(u) == Collect(u, <<>>, "FuncDecl")
GoStatements(u) == Collect(u, <<>>, "GoStmt")
ErrgroupCalls(u) == SelectSeq(Collect(u, <<>>, "CallExpr"), LAMBDA c : IsErrgroupGoCall(c.node))

----------------------------------------------------------------------------
(* Source text of the units and packages the runs are made over *)

Lit == Node("BasicLit", "", "", <<>>)
Recover == CallExpr(Ident("recover", ""), <<>>)
Panic == ExprStmt(CallExpr(Ident("panic", ""), <<Lit>>))
Println == ExprStmt(CallExpr(Ident("println", ""), <<Lit>>))
\* if r := recover(); r != nil { }
IfRecover == IfStmt(AssignStmt(Ident("r", ""), Recover), Ident("r", "var"), <<>>)
\* if ok { recover() }
IfThenRecover == Node("IfStmt", "", "", <<Ident("ok", "var"), BlockStmt(<<ExprStmt(Recover)>>)>>)
\* defer func() { ... }()
DeferFunc(list) == DeferStmt(CallExpr(FuncLit(list), <<>>))
\* defer name()
DeferIdent(name, obj) == DeferStmt(CallExpr(Ident(name, obj), <<>>))
\* defer p.F()
DeferSel(obj) == DeferStmt(CallExpr(SelectorExpr(Ident("p", obj), "F"), <<>>))

\* defer name.fn(), name denoting obj
DeferPkg(name, obj, fn) == DeferStmt(CallExpr(SelectorExpr(Ident(name, obj), fn), <<>>))

\* bodies of the closures launched by go statements
ClosureBodies ==
    { <<Panic>>,                                      \* no defer, no recover
      <<ExprStmt(Recover), Panic>>,                   \* recover() outside any defer
      <<DeferFunc(<<ExprStmt(Recover)>>), Panic>>,    \* defer func() { recover() }()
      <<DeferFunc(<<IfRecover>>), Panic>>,            \* recover in an if initialiser
      <<DeferFunc(<<IfThenRecover>>), Panic>>,        \* recover in a block of an if
      <<DeferIdent("f", "func"), Panic>>,             \* defer f()
      <<DeferSel("A"), Panic>>,                       \* defer p.F()
      <<DeferStmt(CallExpr(Ident("println", ""), <<Lit>>)), Panic>>,
      <<DeferStmt(CallExpr(Ident("println", ""), <<Lit>>)), ExprStmt(Recover)>>,
      <<GoStmt(CallExpr(FuncLit(<<DeferFunc(<<ExprStmt(Recover)>>)>>), <<>>))>>,
      \* func() { defer func() { recover() }() }(); panic("x")
      <<ExprStmt(CallExpr(FuncLit(<<DeferFunc(<<ExprStmt(Recover)>>)>>), <<>>)), Panic>> }

\* what a go statement can launch besides a closure
OtherCallables ==
    { Ident("f", "func"),                             \* go f(), f a function
      Ident("f", "var"),                              \* go f(), f a variable
      SelectorExpr(Ident("p", "A"), "F"),             \* go p.F(), p a package
      SelectorExpr(Ident("p", "var"), "F"),           \* go p.F(), p a variable: method value
      SelectorExpr(SelectorExpr(Ident("a", "var"), "b"), "F"),   \* go a.b.F()
      IndexExpr(Ident("fs", "var"), Lit) }            \* go fs[0]()

\* the other declarations of the unit
Decls ==
    { FuncDecl("f", "func", <<DeferFunc(<<IfRecover>>)>>),
      FuncDecl("f", "func", <<Println>>),
      FuncDecl("f", "func", <<IfRecover>>),
      FuncDecl("f", "func", <<DeferIdent("g", "func")>>),
      FuncDecl("f", "func", <<DeferSel("A")>>),
      FuncDeclNoBody("f", "func"),
      FuncDecl("f", "method", <<Println>>),
      FuncDecl("g", "func", <<DeferFunc(<<ExprStmt(Recover)>>)>>) }

SeqsUpTo(S, n) == UNION { [1..k -> S] : k \in 0..n }

\* a package declares a function name once; methods may repeat a name
ValidDecls(ds) ==
    \A i, j \in 1..Len(ds) :
        (i # j /\ ds[i].obj = "func" /\ ds[j].obj = "func") => ds[i].name # ds[j].name

MkUnit(ds, ls) == Package(<<File("a.go", ds \o <<FuncDecl("main", "func", ls)>>)>>)

UnitsOf(decls, stmts) ==
    { MkUnit(ds, ls) : ds \in { d \in SeqsUpTo(decls, MaxDecls) : ValidDecls(d) },
                       ls \in SeqsUpTo(stmts, MaxLaunch) \ {<<>>} }

GoClosure(list) == GoStmt(CallExpr(FuncLit(list), <<>>))
GoCallee(c) == GoStmt(CallExpr(c, <<>>))
\* g.Go(arg)
ErrgroupGo(arg) == ExprStmt(CallExpr(SelectorExpr(Ident("g", "var"), "Go"), <<arg>>))

\* units that launch closures
ClosureUnits ==
    UnitsOf({ FuncDecl("f", "func", <<DeferFunc(<<IfRecover>>)>>),
              FuncDecl("f", "func", <<Println>>) },
            { GoClosure(b) : b \in ClosureBodies } \cup { ErrgroupGo(FuncLit(<<Panic>>)) })

\* units with several declarations, launching little
SeedUnits ==
    UnitsOf(Decls,
            { GoCallee(Ident("f", "func")),
              GoClosure(<<DeferSel("A"), Panic>>),
              ErrgroupGo(Ident("f", "func")) })

\* units that launch named and qualified functions and other callables
LaunchUnits ==
    UnitsOf({ FuncDecl("f", "func", <<DeferFunc(<<IfRecover>>)>>),
              FuncDecl("f", "func", <<IfRecover>>),
              FuncDeclNoBody("f", "func"),
              FuncDecl("f", "method", <<Println>>) },
            { GoCallee(c) : c \in OtherCallables }
            \cup { GoClosure(<<DeferSel("A"), Panic>>),
                   GoClosure(<<DeferFunc(<<ExprStmt(Recover)>>), Panic>>),
                   ErrgroupGo(Ident("f", "func")) })

\* imported packages: the scope (types.Package.Scope), and the file that the
\* position of its objects names
Pkg(scope, positionValid, parses, decls) ==
    [scope |-> scope, positionValid |-> positionValid, parses |-> parses, decls |-> decls]
FuncObj == [isFunc |-> TRUE, posValid |-> TRUE]

Envs ==
    { \* A.F defers a closure that recovers
      [typesInfo |-> TRUE,
       pkgs |-> [A |-> Pkg([F |-> FuncObj], TRUE, TRUE,
                           <<FuncDecl("F", "func", <<DeferFunc(<<IfRecover>>)>>)>>)]],
      \* A's file imports another package under the name p and defers its F
      [typesInfo |-> TRUE,
       pkgs |-> [A |-> Pkg([F |-> FuncObj], TRUE, TRUE,
                           <<FuncDecl("F", "func", <<DeferSel(""), DeferFunc(<<IfRecover>>)>>)>>)]],
      \* A has no F
      [typesInfo |-> TRUE,
       pkgs |-> [A |-> Pkg(<<>>, TRUE, TRUE, <<>>)]] }

\* the imported packages, with every way in which A.F can fail to be found.
\* B.F registers no recovery; B.G defers A's F and then a recovering closure.
NotAFunc == [isFunc |-> FALSE, posValid |-> TRUE]
NoPosition == [isFunc |-> TRUE, posValid |-> FALSE]
Recovering(name) == FuncDecl(name, "func", <<DeferFunc(<<IfRecover>>)>>)
PkgB ==
    Pkg([F |-> FuncObj, G |-> FuncObj], TRUE, TRUE,
        <<FuncDecl("F", "func", <<Println>>),
          FuncDecl("G", "func", <<DeferPkg("p", "A", "F"), DeferFunc(<<IfRecover>>)>>)>>)
CrossPackagesA ==
    { Pkg([F |-> FuncObj], TRUE, TRUE, <<Recovering("F")>>),
      \* A.F and B.G refer to each other
      Pkg([F |-> FuncObj], TRUE, TRUE, <<FuncDecl("F", "func", <<DeferPkg("q", "B", "G")>>)>>),
      Pkg([G |-> FuncObj], TRUE, TRUE, <<Recovering("G")>>),          \* no F in scope
      Pkg([F |-> NotAFunc], TRUE, TRUE, <<>>),                        \* F is a variable
      Pkg([F |-> NoPosition], TRUE, TRUE, <<Recovering("F")>>),       \* funcObj.Pos() invalid
      Pkg([F |-> FuncObj], FALSE, TRUE, <<Recovering("F")>>),         \* fset.Position invalid
      Pkg([F |-> FuncObj], TRUE, FALSE, <<Recovering("F")>>),         \* the file does not parse
      Pkg([F |-> FuncObj], TRUE, TRUE, <<Recovering("G")>>),          \* no declaration named F
      Pkg([F |-> FuncObj], TRUE, TRUE, <<FuncDeclNoBody("F", "func")>>) }

CrossEnvs ==
    { [typesInfo |-> TRUE, pkgs |-> [A |-> a, B |-> PkgB]] : a \in CrossPackagesA }
    \cup { [typesInfo |-> FALSE,
            pkgs |-> [A |-> Pkg([F |-> FuncObj], TRUE, TRUE, <<Recovering("F")>>), B |-> PkgB]] }

\* launches of qualified functions, under the names p, x, y and q
CrossStmts ==
    { GoCallee(SelectorExpr(Ident("p", "A"), "F")),      \* go p.F()
      GoCallee(SelectorExpr(Ident("p", "var"), "F")),    \* go p.F(), p a local variable
      GoCallee(SelectorExpr(Ident("y", "A"), "F")),      \* go y.F(), import y "A"
      GoCallee(SelectorExpr(Ident("q", "B"), "G")),      \* go q.G()
      GoCallee(SelectorExpr(Ident("p", "B"), "F")),      \* go p.F(), import p "B"
      GoClosure(<<DeferPkg("p", "A", "F"), Panic>>),
      GoClosure(<<DeferPkg("x", "A", "F"), Panic>>),     \* import x "A"
      GoClosure(<<DeferPkg("x", "B", "F"), Panic>>),     \* import x "B"
      ErrgroupGo(SelectorExpr(Ident("p", "A"), "F")) }   \* g.Go(p.F)

RECURSIVE Idents(_)
Idents(n) == (IF n.kind = "Ident" THEN {n} ELSE {}) \cup UNION { Idents(n.kids[i]) : i \in 1..Len(n.kids) }

\* in one file a name is imported for one package
ValidImports(file) ==
    \A a, b \in Idents(file) :
        (a.name = b.name /\ a.obj \in {"A", "B"} /\ b.obj \in {"A", "B"}) => a.obj = b.obj

\* units of two files, each with one launching function
CrossUnits ==
    { u \in { Package(<<File("a.go", <<FuncDecl("m1", "func", l1)>>),
                        File("b.go", <<FuncDecl("m2", "func", <<l2>>)>>)>>) :
                  l1 \in SeqsUpTo(CrossStmts, MaxLaunch) \ {<<>>}, l2 \in CrossStmts } :
          \A i \in 1..Len(u.kids) : ValidImports(u.kids[i]) }

\* launches of every kind, nested ones and malformed ones
MixedStmts ==
    { GoStmtNoCall,
      GoClosure(<<Panic>>),
      GoClosure(<<DeferFunc(<<ExprStmt(Recover)>>), Panic>>),
      GoClosure(<<GoClosure(<<Panic>>)>>),                      \* go func() { go func() {...}() }()
      GoClosure(<<DeferFunc(<<ExprStmt(Recover)>>), GoClosure(<<Panic>>)>>),
      ErrgroupGo(FuncLit(<<Panic>>)),
      ErrgroupGo(FuncLit(<<DeferFunc(<<ExprStmt(Recover)>>)>>)),
      ExprStmt(CallExpr(SelectorExpr(Ident("g", "var"), "Go"), <<>>)),   \* g.Go()
      GoClosure(<<ErrgroupGo(FuncLit(<<Panic>>))>>),            \* go func() { g.Go(...) }()
      \* run(func() { g.Go(...) })
      ExprStmt(CallExpr(Ident("run", ""), <<FuncLit(<<ErrgroupGo(FuncLit(<<Panic>>))>>)>>)) }

\* units mixing them, a file without declarations and a pass without files
MixedUnits ==
    UnitsOf({ FuncDecl("f", "func", <<Println>>), FuncDeclNoBody("g", "func") }, MixedStmts)
    \cup { Package(<<File("a.go", <<>>)>>), Package(<<>>),
           Package(<<File("a.go", <<FuncDecl("f", "func", <<Println>>)>>)>>) }

\* units that launch functions of packages referring to each other
CycleStmts ==
    { GoCallee(SelectorExpr(Ident("p", "A"), "F")),
      GoCallee(SelectorExpr(Ident("q", "B"), "G")),
      GoClosure(<<DeferPkg("p", "A", "F"), Panic>>),
      GoClosure(<<DeferPkg("q", "B", "G"), Panic>>),
      ErrgroupGo(SelectorExpr(Ident("q", "B"), "G")) }
CycleUnits ==
    { Package(<<File("a.go", <<FuncDecl("main", "func", ls)>>)>>) :
          ls \in SeqsUpTo(CycleStmts, MaxLaunch) \ {<<>>} }
CycleEnvs ==
    { [typesInfo |-> TRUE, pkgs |-> [A |-> a, B |-> PkgB]] :
          a \in { Pkg([F |-> FuncObj], TRUE, TRUE, <<Recovering("F")>>),
                  Pkg([F |-> FuncObj], TRUE, TRUE,
                      <<FuncDecl("F", "func", <<DeferPkg("q", "B", "G")>>)>>),
                  Pkg([F |-> FuncObj], TRUE, TRUE,
                      <<FuncDecl("F", "func", <<DeferPkg("p", "A", "F"),
                                                DeferPkg("q", "B", "G")>>)>>) } }

\* the units and the imported packages of successive runs of one process
RunUnits ==
    { MkUnit(ds, ls) :
          ds \in { <<>>, <<Recovering("f")>>, <<FuncDecl("f", "func", <<Println>>)>> },
          ls \in { <<GoCallee(Ident("f", "func"))>>,
                   <<GoCallee(SelectorExpr(Ident("p", "A"), "F"))>>,
                   <<GoCallee(Ident("f", "func")), ErrgroupGo(Ident("f", "func"))>> } }
RunEnvs ==
    { [typesInfo |-> TRUE, pkgs |-> [A |-> Pkg([F |-> FuncObj], TRUE, TRUE, <<d>>)]] :
          d \in { Recovering("F"), FuncDecl("F", "func", <<Println>>) } }

\* imported packages whose file declares a function F and methods named F
SameNameDecls ==
    { FuncDecl("F", "func", <<DeferFunc(<<IfRecover>>)>>),
      FuncDecl("F", "func", <<Println>>),
      FuncDecl("F", "method", <<DeferFunc(<<IfRecover>>)>>),
      FuncDecl("F", "method", <<Println>>) }
SameNameEnvs ==
    { [typesInfo |-> TRUE, pkgs |-> [A |-> Pkg([F |-> FuncObj], TRUE, TRUE, ds)]] :
          ds \in { d \in SeqsUpTo(SameNameDecls, 3) :
                       Cardinality({k \in 1..Len(d) : d[k].obj = "func"}) = 1 } }
SameNameUnits ==
    UnitsOf({}, { GoCallee(SelectorExpr(Ident("p", "A"), "F")),
                  GoClosure(<<DeferSel("A"), Panic>>),
                  ErrgroupGo(SelectorExpr(Ident("p", "A"), "F")) })

\* closures with several defer statements, in every order
DeferBodyStmts ==
    { DeferStmt(CallExpr(Ident("println", ""), <<Lit>>)),
      DeferFunc(<<ExprStmt(Recover)>>),
      DeferIdent("f", "func"),
      ExprStmt(Recover) }
DeferBodies ==
    { b \in [1..2 -> DeferBodyStmts] \cup [1..3 -> DeferBodyStmts] :
          Cardinality({k \in 1..Len(b) : b[k].kind = "DeferStmt"}) >= 2 }
DeferUnits ==
    { MkUnit(ds, ls) :
          ds \in { <<>>, <<Recovering("f")>>, <<FuncDecl("f", "func", <<Println>>)>> },
          ls \in SeqsUpTo({ GoClosure(b) : b \in DeferBodies }
                          \cup { ErrgroupGo(FuncLit(<<DeferStmt(CallExpr(Ident("println", ""), <<Lit>>)),
                                                      DeferFunc(<<ExprStmt(Recover)>>)>>)) },
                          2) \ {<<>>} }

\* variants of one unit, analysed one after the other against the same
\* imported packages: the declarations in another order, with or without a
\* local function h, with or without an earlier launch of q.G
OrderUnits ==
    { MkUnit(ds, <<GoCallee(Ident("f", "func")), ErrgroupGo(Ident("f", "func"))>>) :
          ds \in UNION { { <<FuncDecl("f", "func", <<DeferIdent("g", "func")>>), g>>,
                           <<g, FuncDecl("f", "func", <<DeferIdent("g", "func")>>)>> } :
                         g \in { Recovering("g"), FuncDecl("g", "func", <<Println>>) } } }
ShadowUnits ==
    { MkUnit(ds, <<GoCallee(SelectorExpr(Ident("p", "A"), "F"))>>) :
          ds \in { <<>>, <<Recovering("h")>>, <<FuncDecl("h", "func", <<Println>>)>> } }
NestedRefUnits ==
    { MkUnit(<<>>, ls) :
          ls \in { <<GoCallee(SelectorExpr(Ident("q", "B"), "G")),
                     GoCallee(SelectorExpr(Ident("p", "A"), "F"))>>,
                   <<GoCallee(SelectorExpr(Ident("p", "A"), "F")),
                     GoCallee(SelectorExpr(Ident("q", "B"), "G"))>> } }
VariantUnits == OrderUnits \cup ShadowUnits \cup NestedRefUnits
VariantEnvs ==
    { [typesInfo |-> TRUE, pkgs |-> [A |-> a, B |-> PkgB]] :
          a \in { Pkg([F |-> FuncObj], TRUE, TRUE, <<Recovering("F")>>) }
               \cup { Pkg([F |-> FuncObj, h |-> FuncObj], TRUE, TRUE,
                          <<FuncDecl("F", "func", <<DeferIdent("h", "func")>>), h>>) :
                         h \in { Recovering("h"), FuncDecl("h", "func", <<Println>>) } } }

RECURSIVE MentionsPackage(_)
MentionsPackage(n) ==
    \/ n.kind = "Ident" /\ n.obj \in {"A", "B"}
    \/ \E i \in 1..Len(n.kids) : MentionsPackage(n.kids[i])

\* the file names of the units, test files among them
FileNames == {"a.go", "b.go", "a_test.go", "test.go"}

\* units of two files whose names are test-file names or not
FileStmts ==
    { GoClosure(<<Panic>>),
      GoClosure(<<DeferFunc(<<ExprStmt(Recover)>>), Panic>>),
      ErrgroupGo(FuncLit(<<Panic>>)) }
FileUnits ==
    { Package(<<File(n1, <<FuncDecl("m1", "func", l1)>>),
                File(n2, <<FuncDecl("m2", "func", <<l2>>)>>)>>) :
          n1 \in FileNames, n2 \in FileNames \ {"b.go"},
          l1 \in SeqsUpTo(FileStmts, MaxLaunch) \ {<<>>}, l2 \in FileStmts }

DefaultEnv == CHOOSE e \in Envs : "F" \in DOMAIN e.pkgs["A"].scope /\ Len(e.pkgs["A"].decls[1].kids[1].kids) = 1

----------------------------------------------------------------------------
(* run *)

CollectNodes(u) == [FunctionDecls |-> FunctionDecls(u), GoStatements |-> GoStatements(u),
                    ErrgroupCalls |-> ErrgroupCalls(u)]

Phase(c, phase, i) ==
    IF phase = "AnalyzeFunctions" /\ i <= Len(c.FunctionDecls) THEN <<phase, i>>
    ELSE IF phase = "AnalyzeFunctions" /\ Len(c.GoStatements) > 0 THEN <<"AnalyzeGoroutines", 1>>
    ELSE IF phase = "AnalyzeFunctions" /\ Len(c.ErrgroupCalls) > 0 THEN <<"AnalyzeErrgroupCalls", 1>>
    ELSE IF phase = "AnalyzeGoroutines" /\ i <= Len(c.GoStatements) THEN <<phase, i>>
    ELSE IF phase = "AnalyzeGoroutines" /\ Len(c.ErrgroupCalls) > 0 THEN <<"AnalyzeErrgroupCalls", 1>>
    ELSE IF phase = "AnalyzeErrgroupCalls" /\ i <= Len(c.ErrgroupCalls) THEN <<phase, i>>
    ELSE <<"done", 1>>

\* run: a fresh Analyzer with an empty table and the settings it was given,
\* which nothing reads; then CollectNodes over every file of the pass
InitWith(units, envs, skips) ==
    /\ unit \in units
    /\ env \in (IF MentionsPackage(unit) THEN envs ELSE {DefaultEnv})
    /\ settings \in [SkipTestFiles : skips]
    /\ runs = <<>>
    /\ nodes = CollectNodes(unit)
    /\ pc = Phase(nodes, "AnalyzeFunctions", 1)[1]
    /\ idx = 1
    /\ RecoverFunctions = <<>>
    /\ diags = <<>>
    /\ writes = <<>>
    /\ loads = <<>>
    /\ lookups = <<>>
    /\ verdicts = <<>>

InitOf(units) == InitWith(units, Envs, {FALSE})

InitClosures == InitOf(ClosureUnits)
InitSeed == InitOf(SeedUnits)
InitLaunch == InitOf(LaunchUnits)
InitCross == InitWith(CrossUnits, CrossEnvs, {FALSE})
InitCycle == InitWith(CycleUnits, CycleEnvs, {FALSE})
InitMixed == InitOf(MixedUnits)
InitSameName == InitWith(SameNameUnits, SameNameEnvs, {FALSE})
InitDefers == InitOf(DeferUnits)
InitVariants == InitWith(VariantUnits, VariantEnvs, {FALSE})
InitRuns == InitWith(RunUnits, RunEnvs, {FALSE})
InitFiles == InitWith({u \in FileUnits : u.kids[1].name # u.kids[2].name}, Envs, BOOLEAN)

St0 == [tbl |-> RecoverFunctions, writes |-> writes, loads |-> loads,
        lookups |-> lookups, ret |-> FALSE]

Commit(st) ==
    /\ RecoverFunctions' = st.tbl
    /\ writes' = st.writes
    /\ loads' = st.loads
    /\ lookups' = st.lookups

Step ==
    /\ LET p == Phase(nodes, pc, idx + 1) IN pc' = p[1] /\ idx' = p[2]
    /\ UNCHANGED <<unit, env, nodes, settings, runs>>

\* analyzeFunction keeping the value a name already has
AnalyzeFunctionKeepFirst(funcDecl, st) ==
    IF funcDecl.name = "" \/ ~HasBody(funcDecl) \/ funcDecl.name \in DOMAIN st.tbl THEN st
    ELSE LET r == ContainsRecover(Body(funcDecl), TRUE, st) IN
         [r EXCEPT !.tbl = Put(r.tbl, funcDecl.name, r.ret),
                   !.writes = Append(@, [key |-> funcDecl.name, val |-> r.ret,
                                         by |-> "analyzeFunction"])]

\* analyzeFunction
AnalyzeFunction(funcDecl, st) ==
    IF funcDecl.name = "" \/ ~HasBody(funcDecl) THEN st
    ELSE LET r == ContainsRecover(Body(funcDecl), TRUE, st) IN
         [r EXCEPT !.tbl = Put(r.tbl, funcDecl.name, r.ret),
                   !.writes = Append(@, [key |-> funcDecl.name, val |-> r.ret,
                                         by |-> "analyzeFunction"])]

\* one iteration of AnalyzeFunctions
AnalyzeFunctions ==
    /\ pc = "AnalyzeFunctions"
    /\ Commit(AnalyzeFunction(nodes.FunctionDecls[idx].node, St0))
    /\ UNCHANGED <<diags, verdicts>>
    /\ Step

\* analyzeGoroutine without the return after the first report: the nil Call is
\* dereferenced by hasRecoveryLogic and the run ends there
AnalyzeGoroutinesNoReturn ==
    /\ pc = "AnalyzeGoroutines"
    /\ LET goStmt == nodes.GoStatements[idx] IN
       IF Len(goStmt.node.kids) = 0
       THEN /\ diags' = Append(diags, [pos |-> goStmt.pos,
                                       msg |-> "go statement without call expression"])
            /\ pc' = "done" /\ idx' = 1
            /\ UNCHANGED <<RecoverFunctions, writes, loads, lookups, verdicts,
                           unit, env, nodes, settings, runs>>
       ELSE LET r == HasRecoveryLogic(goStmt.node.kids[1], St0) IN
            /\ Commit(r)
            /\ verdicts' = Append(verdicts, [pos |-> goStmt.pos, safe |-> r.ret])
            /\ diags' = IF ~r.ret
                        THEN Append(diags, [pos |-> goStmt.pos,
                                            msg |-> "goroutine created without panic recovery"])
                        ELSE diags
            /\ Step

\* one iteration of AnalyzeGoroutines: analyzeGoroutine
AnalyzeGoroutines ==
    /\ pc = "AnalyzeGoroutines"
    /\ LET goStmt == nodes.GoStatements[idx] IN
       IF Len(goStmt.node.kids) = 0
       THEN /\ diags' = Append(diags, [pos |-> goStmt.pos,
                                       msg |-> "go statement without call expression"])
            /\ UNCHANGED <<RecoverFunctions, writes, loads, lookups, verdicts>>
       ELSE LET r == HasRecoveryLogic(goStmt.node.kids[1], St0) IN
            /\ Commit(r)
            /\ verdicts' = Append(verdicts, [pos |-> goStmt.pos, safe |-> r.ret])
            /\ diags' = IF ~r.ret
                        THEN Append(diags, [pos |-> goStmt.pos,
                                            msg |-> "goroutine created without panic recovery"])
                        ELSE diags
    /\ Step

\* analyzeErrgroupCall
AnalyzeErrgroupCall(call, st) ==
    IF Len(Args(call)) = 0 THEN Ret(st, TRUE)
    ELSE IF Args(call)[1].kind = "FuncLit"
         THEN ContainsRecover(Args(call)[1].kids[1], TRUE, st)
         ELSE HasRecoveryLogic(CallExpr(Args(call)[1], <<>>), st)

\* one iteration of AnalyzeErrgroupCalls
AnalyzeErrgroupCalls ==
    /\ pc = "AnalyzeErrgroupCalls"
    /\ LET call == nodes.ErrgroupCalls[idx]
           r == AnalyzeErrgroupCall(call.node, St0)
       IN  /\ Commit(r)
           /\ diags' = IF ~r.ret
                       THEN Append(diags, [pos |-> call.pos,
                                           msg |-> "errgroup goroutine created without panic recovery"])
                       ELSE diags
    /\ UNCHANGED verdicts
    /\ Step

Next == AnalyzeFunctions \/ AnalyzeGoroutines \/ AnalyzeErrgroupCalls

\* the next run taking up the Analyzer of the run before it, table included
StartRunSharedTable ==
    /\ pc = "done" /\ Len(runs) < MaxRuns
    /\ runs' = Append(runs, [unit |-> unit, env |-> env, diags |-> diags,
                             tbl |-> RecoverFunctions])
    /\ unit' \in RunUnits
    /\ env' \in (IF MentionsPackage(unit') THEN RunEnvs ELSE {DefaultEnv})
    /\ nodes' = CollectNodes(unit')
    /\ pc' = Phase(nodes', "AnalyzeFunctions", 1)[1]
    /\ idx' = 1
    /\ diags' = <<>> /\ verdicts' = <<>>
    /\ writes' = <<>> /\ loads' = <<>> /\ lookups' = <<>>
    /\ UNCHANGED <<RecoverFunctions, settings>>

\* the analysis framework calls run again, for another pass: a new Analyzer
\* with a new, empty table, a new inspector and a new report sink
StartRun ==
    /\ pc = "done" /\ Len(runs) < MaxRuns
    /\ runs' = Append(runs, [unit |-> unit, env |-> env, diags |-> diags,
                             tbl |-> RecoverFunctions])
    /\ unit' \in RunUnits
    /\ env' \in (IF MentionsPackage(unit') THEN RunEnvs ELSE {DefaultEnv})
    /\ nodes' = CollectNodes(unit')
    /\ pc' = Phase(nodes', "AnalyzeFunctions", 1)[1]
    /\ idx' = 1
    /\ RecoverFunctions' = <<>>
    /\ diags' = <<>> /\ verdicts' = <<>>
    /\ writes' = <<>> /\ loads' = <<>> /\ lookups' = <<>>
    /\ UNCHANGED settings

NextRuns == Next \/ StartRun

\* run called again for a variant of the unit, with the same imported packages
StartRunVariant ==
    /\ pc = "done" /\ Len(runs) < MaxRuns
    /\ runs' = Append(runs, [unit |-> unit, env |-> env, diags |-> diags,
                             tbl |-> RecoverFunctions])
    /\ unit' \in VariantUnits
    /\ nodes' = CollectNodes(unit')
    /\ pc' = Phase(nodes', "AnalyzeFunctions", 1)[1]
    /\ idx' = 1
    /\ RecoverFunctions' = <<>>
    /\ diags' = <<>> /\ verdicts' = <<>>
    /\ writes' = <<>> /\ loads' = <<>> /\ lookups' = <<>>
    /\ UNCHANGED <<env, settings>>

NextVariants == Next \/ StartRunVariant

\* the run over each family of units
SpecClosures == InitClosures /\ [][Next]_vars
SpecSeed == InitSeed /\ [][Next]_vars
SpecLaunch == InitLaunch /\ [][Next]_vars
SpecCross == InitCross /\ [][Next]_vars
SpecCycle == InitCycle /\ [][Next]_vars
SpecMixed == InitMixed /\ [][Next]_vars
SpecFiles == InitFiles /\ [][Next]_vars
SpecSameName == InitSameName /\ [][Next]_vars
SpecDefers == InitDefers /\ [][Next]_vars
\* successive runs
SpecRuns == InitRuns /\ [][NextRuns]_vars
\* successive runs over variants of a unit
SpecVariants == InitVariants /\ [][NextVariants]_vars

----------------------------------------------------------------------------
(* Vocabulary of the properties: syntactic facts about the source text,    *)
(* stated without the analyzer's own operators.                            *)

RECURSIVE HasKind(_, _)
\* a node of this kind occurs in the tree n
HasKind(n, kind) == n.kind = kind \/ \E i \in 1..Len(n.kids) : HasKind(n.kids[i], kind)

IsCallTo(n, name) ==
    n.kind = "CallExpr" /\ n.kids[1].kind = "Ident" /\ n.kids[1].name = name

RECURSIVE CallsAnywhere(_, _)
\* a call name(...) occurs anywhere in the tree n
CallsAnywhere(n, name) ==
    IsCallTo(n, name) \/ \E i \in 1..Len(n.kids) : CallsAnywhere(n.kids[i], name)

RECURSIVE CallsDirectly(_, _)
\* a call name(...) occurs in n itself: in its statements, their initialisers,
\* conditions and nested blocks, but not inside a closure, defer or go statement
CallsDirectly(n, name) ==
    \/ IsCallTo(n, name)
    \/ /\ n.kind \in {"BlockStmt", "ExprStmt", "AssignStmt", "IfStmt", "CallExpr"}
       /\ \E i \in 1..Len(n.kids) : CallsDirectly(n.kids[i], name)

\* the statement is defer func() { ... recover() ... }()
IsDeferredRecoverClosure(stmt) ==
    /\ stmt.kind = "DeferStmt"
    /\ Len(stmt.kids) = 1
    /\ stmt.kids[1].kids[1].kind = "FuncLit"
    /\ CallsDirectly(stmt.kids[1].kids[1].kids[1], "recover")

\* the block registers such a defer as one of its statements
RegistersRecover(block) == \E i \in 1..Len(block.kids) : IsDeferredRecoverClosure(block.kids[i])

GoCount == Len(nodes.GoStatements)
Go(i) == nodes.GoStatements[i]
HasCall(goStmt) == Len(goStmt.node.kids) = 1
Callee(goStmt) == goStmt.node.kids[1].kids[1]
LaunchesClosure(goStmt) == HasCall(goStmt) /\ Callee(goStmt).kind = "FuncLit"
LaunchesIdent(goStmt) == HasCall(goStmt) /\ Callee(goStmt).kind = "Ident"
ClosureBody(goStmt) == Callee(goStmt).kids[1]

\* analyzeGoroutine has returned for the i-th collected go statement
Analysed(i) ==
    \/ pc = "AnalyzeGoroutines" /\ idx > i
    \/ pc \in {"AnalyzeErrgroupCalls", "done"}

SeedingDone == pc # "AnalyzeFunctions"

Reported(pos) == \E d \in 1..Len(diags) : diags[d].pos = pos
ReportCount(pos) == Cardinality({d \in 1..Len(diags) : diags[d].pos = pos})
ClassifiedSafe(pos) == \E v \in 1..Len(verdicts) : verdicts[v].pos = pos /\ verdicts[v].safe
ClassifiedUnsafe(pos) == \E v \in 1..Len(verdicts) : verdicts[v].pos = pos /\ ~verdicts[v].safe

\* the declarations analyzeFunction stores a value for, and the values stored
Seeded == SelectSeq(nodes.FunctionDecls, LAMBDA d : d.node.name # "" /\ HasBody(d.node))
SeedWrites == SelectSeq(writes, LAMBDA w : w.by = "analyzeFunction")

----------------------------------------------------------------------------
(* C1: a go statement whose inline closure registers a defer whose         *)
(* deferred closure calls recover (directly or nested in an if or block    *)
(* of that deferred closure) is classified safe by hasRecoveryLogic and    *)
(* never reported.                                                         *)
C1_DeferredRecoverClosureSafe ==
    \A i \in 1..GoCount :
        (LaunchesClosure(Go(i)) /\ RegistersRecover(ClosureBody(Go(i))))
            => /\ ~Reported(Go(i).pos)
               /\ Analysed(i) => ClassifiedSafe(Go(i).pos)

\* such a statement, with the recover inside an if block, has been analysed
C1_Witness ==
    \E i \in 1..GoCount :
        /\ LaunchesClosure(Go(i)) /\ RegistersRecover(ClosureBody(Go(i)))
        /\ HasKind(ClosureBody(Go(i)), "IfStmt")
        /\ Analysed(i) /\ ClassifiedSafe(Go(i).pos)

(* C2: a go statement whose inline closure contains no defer statement at  *)
(* all is classified unsafe and reported, whatever else the body contains. *)
C2_NoDeferClosureUnsafe ==
    \A i \in 1..GoCount :
        (Analysed(i) /\ LaunchesClosure(Go(i)) /\ ~HasKind(ClosureBody(Go(i)), "DeferStmt"))
            => ClassifiedUnsafe(Go(i).pos) /\ Reported(Go(i).pos)

(* C3: seeding stores true for a local function only if recover is called  *)
(* inside a defer registered on it: a body without any defer statement     *)
(* never gets the value true.                                              *)
C3_SeedTrueOnlyFromDefer ==
    \A k \in 1..Len(SeedWrites) :
        ~HasKind(Body(Seeded[k].node), "DeferStmt") => ~SeedWrites[k].val

----------------------------------------------------------------------------
(* The table as it was after the first n assignments *)

\* the key held true after the first n assignments
StoredTrue(n, key) ==
    \E j \in 1..n :
        /\ writes[j].key = key /\ writes[j].val
        /\ \A l \in (j + 1)..n : writes[l].key # key

\* the index in writes of the k-th value stored by analyzeFunction
SeedWriteIndex(k) ==
    CHOOSE w \in 1..Len(writes) :
        /\ writes[w].by = "analyzeFunction"
        /\ Cardinality({j \in 1..w : writes[j].by = "analyzeFunction"}) = k

RECURSIVE SubNodes(_)
SubNodes(n) == {n} \cup UNION { SubNodes(n.kids[i]) : i \in 1..Len(n.kids) }

\* what the defer statements anywhere in the tree call
DeferCallees(n) ==
    { d.kids[1].kids[1] : d \in { x \in SubNodes(n) : x.kind = "DeferStmt" /\ Len(x.kids) = 1 } }

QualifiedKey(sel) == sel.kids[1].name \o "." \o sel.name

(* C4 as stated: after AnalyzeFunctions every declaration with a name and  *)
(* a body has an entry, true exactly when its body contains a call to      *)
(* recover anywhere.                                                       *)
C4_EntryIffRecoverInBody ==
    SeedingDone =>
        \A k \in 1..Len(Seeded) :
            LET d == Seeded[k].node IN
            /\ d.name \in DOMAIN RecoverFunctions
            /\ RecoverFunctions[d.name] = CallsAnywhere(Body(d), "recover")

(* C4 amended: every such declaration has an entry; the entry holds the    *)
(* value stored for the last declaration of that name, and the value       *)
(* stored for a declaration is true exactly when its body contains a call  *)
(* to recover anywhere, or a defer of a bare name held true at that        *)
(* moment, or a defer of a qualified name pkg.F whose key is held true.    *)
C4_EntryIsLastSeedValue ==
    /\ \A k \in 1..Len(SeedWrites) :
           LET d == Seeded[k].node
               w == SeedWriteIndex(k)
           IN  /\ SeedWrites[k].key = d.name
               /\ SeedWrites[k].val =
                      \/ CallsAnywhere(Body(d), "recover")
                      \/ \E c \in DeferCallees(Body(d)) :
                             \/ c.kind = "Ident" /\ StoredTrue(w - 1, c.name)
                             \/ /\ c.kind = "SelectorExpr" /\ c.kids[1].kind = "Ident"
                                /\ StoredTrue(w, QualifiedKey(c))
    /\ SeedingDone =>
           /\ Len(SeedWrites) = Len(Seeded)
           /\ \A k \in 1..Len(Seeded) :
                  LET name == Seeded[k].node.name IN
                  /\ name \in DOMAIN RecoverFunctions
                  /\ \E l \in k..Len(Seeded) :
                         /\ SeedWrites[l].key = name
                         /\ RecoverFunctions[name] = SeedWrites[l].val
                         /\ \A m \in (l + 1)..Len(Seeded) : SeedWrites[m].key # name

\* a declaration without any recover call was stored true because it defers
\* a named function that was held true at that moment
C4_Witness ==
    /\ SeedingDone
    /\ \E k \in 1..Len(Seeded) :
           /\ ~CallsAnywhere(Body(Seeded[k].node), "recover")
           /\ \E c \in DeferCallees(Body(Seeded[k].node)) : c.kind = "Ident"
           /\ SeedWrites[k].val
           /\ RecoverFunctions[Seeded[k].node.name]

(* C5: go f(), f a function of the unit whose body registers a defer whose *)
(* deferred closure calls recover, is classified safe and not reported.    *)
DeclaresRecoveringFunction(name) ==
    \E k \in 1..Len(nodes.FunctionDecls) :
        LET d == nodes.FunctionDecls[k].node IN
        d.name = name /\ d.obj = "func" /\ HasBody(d) /\ RegistersRecover(Body(d))

C5_NamedRecoveringFunctionSafe ==
    \A i \in 1..GoCount :
        (/\ Analysed(i) /\ LaunchesIdent(Go(i)) /\ Callee(Go(i)).obj = "func"
         /\ DeclaresRecoveringFunction(Callee(Go(i)).name))
            => ClassifiedSafe(Go(i).pos) /\ ~Reported(Go(i).pos)

(* C6: go f() for a bare name f without a function definition with a body  *)
(* in the unit is classified unsafe and reported exactly once, and the     *)
(* go statements after it are analysed all the same.                       *)
DefinedWithBody(name) ==
    \E k \in 1..Len(nodes.FunctionDecls) :
        nodes.FunctionDecls[k].node.name = name /\ HasBody(nodes.FunctionDecls[k].node)

\* analyzeErrgroupCall has returned for the e-th collected x.Go(...) call
ErrgroupAnalysed(e) ==
    \/ pc = "AnalyzeErrgroupCalls" /\ idx > e
    \/ pc = "done"

C7_FunctionValueUnsafe ==
    \A i \in 1..GoCount :
        (Analysed(i) /\ LaunchesIdent(Go(i)) /\ Callee(Go(i)).obj = "var")
            => ClassifiedUnsafe(Go(i).pos)

(* C8: a go statement whose callable is neither a closure, nor a bare      *)
(* name, nor a package-qualified function (a method value, a chained       *)
(* selector, an indexed target) is always unsafe.                          *)
IsPackageQualified(c) ==
    c.kind = "SelectorExpr" /\ c.kids[1].kind = "Ident" /\ c.kids[1].obj \in DOMAIN env.pkgs

C8_OtherShapesUnsafe ==
    \A i \in 1..GoCount :
        (/\ Analysed(i) /\ HasCall(Go(i))
         /\ Callee(Go(i)).kind \notin {"FuncLit", "Ident"}
         /\ ~IsPackageQualified(Callee(Go(i))))
            => ClassifiedUnsafe(Go(i).pos)

(* C9 as stated: every resolution of one qualified key returns the same    *)
(* boolean, and the loader runs at most once for the key.                  *)
LoadedAtMostOnce ==
    \A a, b \in 1..Len(loads) : loads[a].key = loads[b].key => a = b

C9_SameResultEveryTime ==
    /\ \A a, b \in 1..Len(lookups) :
           lookups[a].key = lookups[b].key => lookups[a].ret = lookups[b].ret
    /\ LoadedAtMostOnce

(* What does hold of the code: every resolution of one qualified key asked *)
(* for by the unit under analysis returns the same boolean, and the loader *)
(* runs at most once for the key; a lookup met inside the body of a loaded *)
(* function, when the key is not stored yet, returns false, whatever the   *)
(* key's final value.                                                      *)
UnitResolutionsAgree ==
    /\ \A a, b \in 1..Len(lookups) :
           (lookups[a].inUnit /\ lookups[b].inUnit /\ lookups[a].key = lookups[b].key)
               => lookups[a].ret = lookups[b].ret
    /\ LoadedAtMostOnce
    /\ \A a \in 1..Len(lookups) :
           (~lookups[a].inUnit /\ ~lookups[a].cached) => ~lookups[a].ret

\* a key was resolved twice by the unit, true both times, after a nested
\* lookup of the same key had returned false during its one load
NestedLookupDisagrees ==
    \E a, b, c \in 1..Len(lookups) :
        /\ c < a /\ a < b
        /\ lookups[a].key = lookups[b].key /\ lookups[a].key = lookups[c].key
        /\ lookups[a].inUnit /\ lookups[b].inUnit /\ ~lookups[c].inUnit
        /\ lookups[a].ret /\ lookups[b].ret /\ ~lookups[c].ret
        /\ Cardinality({l \in 1..Len(loads) : loads[l].key = lookups[a].key}) = 1

(* C10: once a key of the table holds a boolean, no later assignment       *)
(* changes the value under that key.                                       *)
C10_StoredValueFinal ==
    \A a, b \in 1..Len(writes) :
        (a < b /\ writes[a].key = writes[b].key) => writes[a].val = writes[b].val

----------------------------------------------------------------------------
(* Resolution of qualified references *)

\* the lookups made for identifiers of a file parsed by the loader
Nested(a) == ~lookups[a].inUnit
\* the lookups that did not find their key in the table
Computed(a) == ~lookups[a].cached

\* a lookup met inside a loaded body computes false and loads nothing: the
\* loads are those of the unit's own lookups
NoNestedLoad ==
    /\ \A a \in 1..Len(lookups) : (Nested(a) /\ Computed(a)) => ~lookups[a].ret
    /\ Len(loads) <= Cardinality({a \in 1..Len(lookups) : ~Nested(a) /\ Computed(a)})

\* the iterations the three loops of run() still have to make
Remaining ==
    LET f == Len(nodes.FunctionDecls)
        g == Len(nodes.GoStatements)
        e == Len(nodes.ErrgroupCalls)
    IN  CASE pc = "AnalyzeFunctions" -> (f + 1 - idx) + g + e
          [] pc = "AnalyzeGoroutines" -> (g + 1 - idx) + e
          [] pc = "AnalyzeErrgroupCalls" -> e + 1 - idx
          [] OTHER -> 0

\* the loop that is running has an element to take
HasNext ==
    /\ pc = "AnalyzeFunctions" => idx \in 1..Len(nodes.FunctionDecls)
    /\ pc = "AnalyzeGoroutines" => idx \in 1..Len(nodes.GoStatements)
    /\ pc = "AnalyzeErrgroupCalls" => idx \in 1..Len(nodes.ErrgroupCalls)

(* C11: every run ends, also over packages whose functions refer to each   *)
(* other through qualified deferred calls: every step of the run leaves    *)
(* fewer iterations to make, the run is over exactly when none is left,    *)
(* and a key met again inside a loaded body yields false and starts no     *)
(* further load.                                                           *)
C11_RunTerminates ==
    /\ [][Remaining' < Remaining]_vars
    /\ [](HasNext /\ (pc = "done" <=> Remaining = 0))
    /\ []NoNestedLoad

\* the run is over, A.F was loaded and the q.G it defers was looked up inside
\* it, while B.G defers A's F in turn
C11_Witness ==
    /\ pc = "done"
    /\ \E l \in 1..Len(loads) : loads[l].pkg = "A" /\ loads[l].fn = "F"
    /\ \E a \in 1..Len(lookups) :
           Nested(a) /\ Computed(a) /\ lookups[a].key = "q.G" /\ ~lookups[a].ret
    /\ \E d \in SubNodes(FindDecl(env.pkgs["B"].decls, 1, "G", <<>>)[1]) :
           d.kind = "SelectorExpr" /\ d.name = "F" /\ d.kids[1].obj = "A"

\* the package and the function a qualified reference of the unit denotes
\* cannot be found: one of the ways in which the loader gives up applies
Unresolvable(sel) ==
    /\ sel.kind = "SelectorExpr" /\ sel.kids[1].kind = "Ident"
    /\ \/ ~env.typesInfo
       \/ sel.kids[1].obj \notin DOMAIN env.pkgs
       \/ LET P == env.pkgs[sel.kids[1].obj] IN
          \/ sel.name \notin DOMAIN P.scope
          \/ ~P.scope[sel.name].isFunc
          \/ ~P.scope[sel.name].posValid
          \/ ~P.positionValid
          \/ ~P.parses
          \/ ~\E k \in 1..Len(P.decls) : P.decls[k].name = sel.name /\ HasBody(P.decls[k])

(* C12: go pkg.F() for a qualified reference that cannot be resolved is    *)
(* classified unsafe and reported with exactly one diagnostic.             *)
C12_UnresolvableIsReported ==
    \A i \in 1..GoCount :
        (Analysed(i) /\ HasCall(Go(i)) /\ Unresolvable(Callee(Go(i))))
            => ClassifiedUnsafe(Go(i).pos) /\ ReportCount(Go(i).pos) = 1

\* the name a package is imported under when the import gives no other name
PackageName == [A |-> "p", B |-> "q"]

\* the identifier is an import alias of a package
IsAlias(ident) ==
    ident.kind = "Ident" /\ ident.obj \in DOMAIN PackageName /\ ident.name # PackageName[ident.obj]

\* the function fn of package P has a body that contains a call to recover
FunctionRecovers(P, fn) ==
    \E k \in 1..Len(P.decls) :
        /\ P.decls[k].name = fn /\ P.decls[k].obj = "func" /\ HasBody(P.decls[k])
        /\ CallsAnywhere(Body(P.decls[k]), "recover")

\* the closure launched by the i-th go statement calls no recover itself and
\* has one defer statement, which calls c
DefersOnly(i, c) ==
    /\ LaunchesClosure(Go(i))
    /\ ~CallsAnywhere(ClosureBody(Go(i)), "recover")
    /\ DeferCallees(ClosureBody(Go(i))) = {c}

(* C17: a closure that defers alias.F(), alias an import alias, is          *)
(* classified safe exactly when the body of F in the package the alias     *)
(* imports contains recovery.                                              *)
C17_AliasResolvesToImportedPackage ==
    \A i \in 1..GoCount :
        \A c \in (IF LaunchesClosure(Go(i)) THEN DeferCallees(ClosureBody(Go(i))) ELSE {}) :
            (/\ Analysed(i) /\ DefersOnly(i, c)
             /\ c.kind = "SelectorExpr" /\ IsAlias(c.kids[1]) /\ ~Unresolvable(c))
                => (ClassifiedSafe(Go(i).pos) <=> FunctionRecovers(env.pkgs[c.kids[1].obj], c.name))

\* two references of the unit denote the same function
SameFunction(a, b) ==
    \/ /\ a.kind = "Ident" /\ b.kind = "Ident"
       /\ a.obj = "func" /\ b.obj = "func" /\ a.name = b.name
    \/ /\ a.kind = "SelectorExpr" /\ b.kind = "SelectorExpr"
       /\ a.kids[1].kind = "Ident" /\ b.kids[1].kind = "Ident"
       /\ a.kids[1].obj \in DOMAIN env.pkgs /\ a.kids[1].obj = b.kids[1].obj
       /\ a.name = b.name

(* C18: a closure whose one defer calls a named or qualified function, and *)
(* which calls no recover itself, is classified safe exactly when that     *)
(* function is classified safe: the verdict of the closure is the verdict  *)
(* of a go statement that launches the same function.                      *)
C18_DeferredCalleeDecides ==
    \A i, j \in 1..GoCount :
        \A c \in (IF LaunchesClosure(Go(i)) THEN DeferCallees(ClosureBody(Go(i))) ELSE {}) :
            (/\ Analysed(i) /\ Analysed(j) /\ DefersOnly(i, c)
             /\ HasCall(Go(j)) /\ SameFunction(c, Callee(Go(j))))
                => (ClassifiedSafe(Go(i).pos) <=> ClassifiedSafe(Go(j).pos))

----------------------------------------------------------------------------
(* Launch statements and diagnostics *)

Malformed == "go statement without call expression"

\* the diagnostics delivered for a position
DiagsAt(pos) == SelectSeq(diags, LAMBDA d : d.pos = pos)

(* C13: a go statement with no call expression gets exactly one            *)
(* diagnostic, of the malformed kind, and the go statements after it are   *)
(* analysed all the same.                                                  *)
C13_MalformedReportedOnce ==
    \A i \in 1..GoCount :
        (Analysed(i) /\ ~HasCall(Go(i)))
            => /\ Len(DiagsAt(Go(i).pos)) = 1
               /\ DiagsAt(Go(i).pos)[1].msg = Malformed
               /\ pc = "done" =>
                      \A j \in (i + 1)..GoCount :
                          \/ ClassifiedSafe(Go(j).pos) \/ ClassifiedUnsafe(Go(j).pos)
                          \/ Len(DiagsAt(Go(j).pos)) = 1

\* a malformed go statement was reported and a go statement after it was
\* classified, one safe or one unsafe and reported
C13_Witness ==
    /\ pc = "done"
    /\ \E i \in 1..GoCount :
           /\ ~HasCall(Go(i)) /\ Len(DiagsAt(Go(i).pos)) = 1
           /\ \E j \in (i + 1)..GoCount : ClassifiedUnsafe(Go(j).pos) /\ Reported(Go(j).pos)

RECURSIVE AllOfKind(_, _, _)
\* every node of the kind in the tree, in source order, with its position
AllOfKind(n, path, kind) ==
    LET RECURSIVE Below(_)
        Below(i) == IF i > Len(n.kids) THEN <<>>
                    ELSE AllOfKind(n.kids[i], Append(path, i), kind) \o Below(i + 1)
    IN  (IF n.kind = kind THEN <<[node |-> n, pos |-> path]>> ELSE <<>>) \o Below(1)

\* position p comes before position q in the source
RECURSIVE Before(_, _)
Before(p, q) ==
    IF p = <<>> THEN q # <<>>
    ELSE IF q = <<>> THEN FALSE
    ELSE IF Head(p) = Head(q) THEN Before(Tail(p), Tail(q))
    ELSE Head(p) < Head(q)

\* the launches of the unit: its go statements and its x.Go(...) calls
Launches ==
    { l.pos : l \in { AllOfKind(unit, <<>>, "GoStmt")[k] :
                          k \in 1..Len(AllOfKind(unit, <<>>, "GoStmt")) } }
    \cup { nodes.ErrgroupCalls[e].pos : e \in 1..Len(nodes.ErrgroupCalls) }

(* C14: the diagnostics of a run are the unsafe and the malformed launch   *)
(* statements of the unit in source order: at most one per position, never *)
(* one for an earlier launch after one for a later launch, and at the end  *)
(* one for every go statement of the unit that was not classified safe.    *)
C14_DiagnosticsInSourceOrder ==
    /\ \A a, b \in 1..Len(diags) : a < b => Before(diags[a].pos, diags[b].pos)
    /\ \A d \in 1..Len(diags) : diags[d].pos \in Launches /\ ~ClassifiedSafe(diags[d].pos)
    /\ pc = "done" =>
           \A k \in 1..Len(AllOfKind(unit, <<>>, "GoStmt")) :
               LET pos == AllOfKind(unit, <<>>, "GoStmt")[k].pos IN
               ClassifiedSafe(pos) \/ Len(DiagsAt(pos)) = 1

(* C15: CollectNodes returns every function declaration and every go       *)
(* statement of the unit, each once and in source order, nested go         *)
(* statements included, and empty sequences for a unit without any.        *)
C15_CollectsEveryNode ==
    /\ nodes.FunctionDecls = AllOfKind(unit, <<>>, "FuncDecl")
    /\ nodes.GoStatements = AllOfKind(unit, <<>>, "GoStmt")

\* a call that involves no recovery: the builtin println
NoRecoveryCall(c) == c.kind = "Ident" /\ c.name = "println" /\ ~DefinedWithBody("println")

(* C19: a closure whose only defer statements register calls that involve  *)
(* no recovery, such as defer println(...), is classified unsafe and       *)
(* reported.                                                               *)
C19_DeferWithoutRecoveryUnsafe ==
    \A i \in 1..GoCount :
        (/\ Analysed(i) /\ LaunchesClosure(Go(i))
         /\ DeferCallees(ClosureBody(Go(i))) # {}
         /\ \A c \in DeferCallees(ClosureBody(Go(i))) : NoRecoveryCall(c))
            => ClassifiedUnsafe(Go(i).pos) /\ Reported(Go(i).pos)

----------------------------------------------------------------------------
(* Settings *)

\* the file names that end in _test.go
IsTestFile(name) == name \in {"a_test.go"}

\* the name of the file a position lies in
FileOf(pos) == unit.kids[pos[1]].name

\* the go statements and the x.Go(...) calls of the unit, whatever was collected
UnitLaunches ==
    LET gos == AllOfKind(unit, <<>>, "GoStmt")
        calls == SelectSeq(AllOfKind(unit, <<>>, "CallExpr"), LAMBDA c : IsErrgroupGoCall(c.node))
    IN  { gos[k] : k \in 1..Len(gos) } \cup { calls[k] : k \in 1..Len(calls) }

(* C16: with SkipTestFiles no diagnostic is reported for a launch in a     *)
(* file whose name ends in _test.go; without it (the default) a launch in  *)
(* such a file is reported like the same launch in any other file.         *)
C16_SkipTestFiles ==
    /\ settings.SkipTestFiles =>
           \A d \in 1..Len(diags) : ~IsTestFile(FileOf(diags[d].pos))
    /\ (~settings.SkipTestFiles /\ pc = "done") =>
           \A l1, l2 \in UnitLaunches :
               l1.node = l2.node => (Reported(l1.pos) <=> Reported(l2.pos))

----------------------------------------------------------------------------
(* Runs *)

\* the keys written so far in the current run
WrittenKeys == { writes[w].key : w \in 1..Len(writes) }

(* C20: the table of a run starts empty and is the run's own: it holds     *)
(* only entries written in this run, no lookup finds an entry this run did *)
(* not write, and a finished run over a unit has the diagnostics of every  *)
(* earlier run over the same unit and the same imported packages,          *)
(* whatever was analysed in between.                                       *)
C20_RunsDoNotInterfere ==
    /\ DOMAIN RecoverFunctions = WrittenKeys
    /\ \A a \in 1..Len(lookups) : lookups[a].cached => lookups[a].key \in WrittenKeys
    /\ pc = "done" =>
           \A r \in 1..Len(runs) :
               (runs[r].unit = unit /\ runs[r].env = env) => runs[r].diags = diags

\* the third run repeats the first; the run between them left the entry
\* f |-> TRUE, the current run has no entry for f and reports go f()
C20_Witness ==
    /\ pc = "done" /\ Len(runs) = 2
    /\ runs[1].unit = unit /\ runs[1].env = env /\ runs[2].unit # unit
    /\ "f" \in DOMAIN runs[2].tbl /\ runs[2].tbl["f"]
    /\ "f" \notin DOMAIN RecoverFunctions
    /\ Len(diags) > 0

----------------------------------------------------------------------------
(* The loader *)

\* the first declaration named fn in the file, in source order
FirstNamed(decls, fn) ==
    decls[CHOOSE k \in 1..Len(decls) :
              decls[k].name = fn /\ \A j \in 1..(k - 1) : decls[j].name # fn]

(* C22: when the file of an external symbol declares several functions of  *)
(* its name, the loader analyses the first of them in source order: the    *)
(* lookup that loaded it returns whether that declaration's body recovers. *)
C22_LoaderTakesFirstDeclaration ==
    \A l \in 1..Len(loads) : \A a \in 1..Len(lookups) :
        (lookups[a].key = loads[l].key /\ ~Nested(a) /\ Computed(a))
            => LET d == FirstNamed(env.pkgs[loads[l].pkg].decls, loads[l].fn)
               IN  lookups[a].ret = (HasBody(d) /\ CallsAnywhere(Body(d), "recover"))

----------------------------------------------------------------------------
(* Closures with several defer statements *)

\* the defer statements among the statements of a block
DeferStmtsOf(block) == { k \in 1..Len(block.kids) : block.kids[k].kind = "DeferStmt" }

\* the defer statement is a recovery: defer recover(), a deferred closure
\* that calls recover, or a deferred function of the unit that does
IsRecoveryDefer(stmt) ==
    /\ stmt.kind = "DeferStmt" /\ Len(stmt.kids) = 1
    /\ \/ IsCallTo(stmt.kids[1], "recover")
       \/ IsDeferredRecoverClosure(stmt)
       \/ /\ stmt.kids[1].kids[1].kind = "Ident" /\ stmt.kids[1].kids[1].obj = "func"
          /\ DeclaresRecoveringFunction(stmt.kids[1].kids[1].name)

\* the two blocks have the same statements, in any order
SameStatements(a, b) ==
    /\ Len(a.kids) = Len(b.kids)
    /\ \A k \in 1..Len(a.kids) :
           Cardinality({j \in 1..Len(a.kids) : a.kids[j] = a.kids[k]})
               = Cardinality({j \in 1..Len(b.kids) : b.kids[j] = a.kids[k]})

\* closures with the same statements in different orders get the same verdict
DeferOrderIrrelevant ==
    \A i, j \in 1..GoCount :
        (/\ Analysed(i) /\ Analysed(j) /\ LaunchesClosure(Go(i)) /\ LaunchesClosure(Go(j))
         /\ SameStatements(ClosureBody(Go(i)), ClosureBody(Go(j))))
            => (ClassifiedSafe(Go(i).pos) <=> ClassifiedSafe(Go(j).pos))

(* C23: a closure with several defer statements is classified safe exactly *)
(* when at least one of them is a recovery, whatever their order.          *)
C23_AnyDeferRecovers ==
    /\ \A i \in 1..GoCount :
           (/\ Analysed(i) /\ LaunchesClosure(Go(i))
            /\ Cardinality(DeferStmtsOf(ClosureBody(Go(i)))) >= 2)
               => (ClassifiedSafe(Go(i).pos)
                      <=> \E k \in DeferStmtsOf(ClosureBody(Go(i))) :
                              IsRecoveryDefer(ClosureBody(Go(i)).kids[k]))
    /\ DeferOrderIrrelevant

----------------------------------------------------------------------------
(* Runs over variants of a unit *)

\* the declarations of the one file of a unit
DeclsOf(u) == u.kids[1].kids

\* the declarations of u named name, and the others
Named(u, name) == SelectSeq(DeclsOf(u), LAMBDA d : d.name = name)
NotNamed(u, name) == SelectSeq(DeclsOf(u), LAMBDA d : d.name # name)

\* the two units have the same declarations, in any order
SameDeclarations(u, v) ==
    /\ Len(DeclsOf(u)) = Len(DeclsOf(v))
    /\ { DeclsOf(u)[k] : k \in 1..Len(DeclsOf(u)) } = { DeclsOf(v)[k] : k \in 1..Len(DeclsOf(v)) }

\* f's only recovery is defer g(), and g's body contains recover
RecoversThrough(u, f, g) ==
    /\ Len(Named(u, f)) = 1 /\ Len(Named(u, g)) = 1
    /\ HasBody(Named(u, f)[1]) /\ HasBody(Named(u, g)[1])
    /\ ~CallsAnywhere(Body(Named(u, f)[1]), "recover")
    /\ DeferCallees(Body(Named(u, f)[1])) = {Ident(g, "func")}
    /\ CallsAnywhere(Body(Named(u, g)[1]), "recover")

(* C24: when f's only recovery is defer g() and g's body contains recover, *)
(* the entry of f after AnalyzeFunctions is the same whether g is declared *)
(* before f or after it.                                                   *)
C24_SeedingOrderIndependent ==
    SeedingDone =>
        \A r \in 1..Len(runs) :
            (SameDeclarations(runs[r].unit, unit) /\ RecoversThrough(unit, "f", "g"))
                => runs[r].tbl["f"] = RecoverFunctions["f"]

\* the qualified functions the go statements of a unit launch
LaunchedQualified(u) ==
    LET gos == AllOfKind(u, <<>>, "GoStmt") IN
    { gos[k].node.kids[1].kids[1] :
          k \in { j \in 1..Len(gos) :
                      /\ Len(gos[j].node.kids) = 1
                      /\ gos[j].node.kids[1].kids[1].kind = "SelectorExpr"
                      /\ gos[j].node.kids[1].kids[1].kids[1].kind = "Ident"
                      /\ gos[j].node.kids[1].kids[1].kids[1].obj \in DOMAIN env.pkgs } }

(* C25: the result for an external function does not depend on whether the *)
(* unit under analysis defines a local function h: two runs against the    *)
(* same imported packages, over units that differ only in their            *)
(* declarations named h, end with the same value for every qualified       *)
(* function both launch.                                                   *)
C25_LocalNameDoesNotLeak ==
    pc = "done" =>
        \A r \in 1..Len(runs) :
            (runs[r].env = env /\ NotNamed(runs[r].unit, "h") = NotNamed(unit, "h"))
                => \A c \in LaunchedQualified(unit) :
                       runs[r].tbl[QualifiedKey(c)] = RecoverFunctions[QualifiedKey(c)]

(* C26: the classification of go p.F() does not depend on whether a        *)
(* reference with the key p.F was met earlier in the run inside the body   *)
(* of a loaded function: two runs against the same imported packages, over *)
(* units with the same declarations besides the launching function, end    *)
(* with the same value for every qualified function both launch.           *)
C26_NestedReferenceDoesNotDecide ==
    pc = "done" =>
        \A r \in 1..Len(runs) :
            (runs[r].env = env /\ NotNamed(runs[r].unit, "main") = NotNamed(unit, "main"))
                => \A c \in LaunchedQualified(unit) \cap LaunchedQualified(runs[r].unit) :
                       runs[r].tbl[QualifiedKey(c)] = RecoverFunctions[QualifiedKey(c)]

----------------------------------------------------------------------------
(* One import name in two files *)

\* the go statement launches a qualified function that can be located
LaunchesResolvable(goStmt) ==
    /\ HasCall(goStmt) /\ IsPackageQualified(Callee(goStmt)) /\ ~Unresolvable(Callee(goStmt))

(* C27: when two files use one import name for two different packages, a   *)
(* launch name.F in each file is classified by the F of the package that   *)
(* file imports, not by the result memoized for the other file.            *)
C27_ImportNameIsPerFile ==
    \A i, j \in 1..GoCount :
        (/\ Analysed(i) /\ Analysed(j)
         /\ LaunchesResolvable(Go(i)) /\ LaunchesResolvable(Go(j))
         /\ FileOf(Go(i).pos) # FileOf(Go(j).pos)
         /\ QualifiedKey(Callee(Go(i))) = QualifiedKey(Callee(Go(j)))
         /\ Callee(Go(i)).kids[1].obj # Callee(Go(j)).kids[1].obj)
            => (ClassifiedSafe(Go(j).pos)
                   <=> FunctionRecovers(env.pkgs[Callee(Go(j)).kids[1].obj], Callee(Go(j)).name))

----------------------------------------------------------------------------
(* Whose recovery it is *)

RECURSIVE OwnRecover(_)
\* a call to recover occurs in n outside the closures of nested go
\* statements and outside nested closures that are not deferred
OwnRecover(n) ==
    \/ IsCallTo(n, "recover")
    \/ /\ n.kind = "DeferStmt" /\ Len(n.kids) = 1 /\ n.kids[1].kids[1].kind = "FuncLit"
       /\ OwnRecover(n.kids[1].kids[1].kids[1])
    \/ /\ n.kind \notin {"GoStmt", "FuncLit"}
       /\ \E i \in 1..Len(n.kids) : OwnRecover(n.kids[i])

\* the closure's only recovery lies in a nested launch or a nested closure
\* that is not deferred: it defers no named function either
OnlyNestedRecover(block) ==
    /\ CallsAnywhere(block, "recover") /\ ~OwnRecover(block)
    /\ \A c \in DeferCallees(block) : c.kind = "FuncLit"

(* C28: a recover that occurs only inside the closure of a nested go       *)
(* statement, or inside a nested closure that is not deferred, does not    *)
(* make the launch of the outer closure safe.                              *)
C28_RecoveryBelongsToClosure ==
    \A i \in 1..GoCount :
        (Analysed(i) /\ LaunchesClosure(Go(i)) /\ OnlyNestedRecover(ClosureBody(Go(i))))
            => ClassifiedUnsafe(Go(i).pos) /\ Reported(Go(i).pos)

----------------------------------------------------------------------------
(* Method calls x.Go(arg) *)

ErrgroupMessage == "errgroup goroutine created without panic recovery"

\* every call x.Go(...) of the unit, wherever it sits
GoMethodCalls ==
    SelectSeq(AllOfKind(unit, <<>>, "CallExpr"), LAMBDA c : IsErrgroupGoCall(c.node))

(* C29: every call x.Go(arg) of the unit is collected, also inside a        *)
(* function literal passed to another call or inside the closure of a go   *)
(* statement; when arg is a closure without any recover it is reported     *)
(* once, with the errgroup message, at the call's position; x.Go() without *)
(* argument is never reported.                                             *)
C29_EveryGoMethodCallAnalysed ==
    /\ nodes.ErrgroupCalls = GoMethodCalls
    /\ \A k \in 1..Len(GoMethodCalls) :
           LET c == GoMethodCalls[k] IN
           /\ Len(Args(c.node)) = 0 => ~Reported(c.pos)
           /\ (/\ pc = "done" /\ Len(Args(c.node)) > 0
               /\ Args(c.node)[1].kind = "FuncLit"
               /\ ~CallsAnywhere(Args(c.node)[1], "recover"))
                  => /\ Len(DiagsAt(c.pos)) = 1
                     /\ DiagsAt(c.pos)[1].msg = ErrgroupMessage

----------------------------------------------------------------------------
(* What classifying launches may write *)

\* the keys of the form name.Symbol: one for every selector on an identifier
\* in the unit or in the files of the imported packages
QualifiedKeys ==
    LET sels(n) == { x \in SubNodes(n) : x.kind = "SelectorExpr" /\ x.kids[1].kind = "Ident" }
    IN  { QualifiedKey(c) : c \in sels(unit) }
        \cup UNION { UNION { { QualifiedKey(c) : c \in sels(env.pkgs[P].decls[k]) } :
                                k \in 1..Len(env.pkgs[P].decls) } : P \in DOMAIN env.pkgs }

Classifying == pc \in {"AnalyzeGoroutines", "AnalyzeErrgroupCalls"}

(* C30: a step of AnalyzeGoroutines or AnalyzeErrgroupCalls leaves every    *)
(* entry stored under a bare local name as it is, and the only entries it  *)
(* adds are under qualified keys name.Symbol.                              *)
C30_LaunchesLeaveLocalEntries ==
    [][Classifying =>
          /\ \A k \in DOMAIN RecoverFunctions \ QualifiedKeys :
                 k \in DOMAIN RecoverFunctions' /\ RecoverFunctions'[k] = RecoverFunctions[k]
          /\ (DOMAIN RecoverFunctions') \ (DOMAIN RecoverFunctions) \subseteq QualifiedKeys]_vars

\* a run is over in which the launches were of a known and of an unknown
\* bare name and of a qualified function: the table has the seeded entry of
\* f, and its last entry was added under a qualified key while classifying
C30_Witness ==
    /\ pc = "done"
    /\ "f" \in DOMAIN RecoverFunctions
    /\ \E i \in 1..GoCount : LaunchesIdent(Go(i))
    /\ \A c \in DeferCallees(unit) : c.kind # "SelectorExpr"
    /\ Len(writes) > Len(SeedWrites)
    /\ writes[Len(writes)].key \in QualifiedKeys
    /\ writes[Len(writes)].key \in DOMAIN RecoverFunctions

====
